---------------------------- MODULE Spec2Model ----------------------------
(***************************************************************************)
(* Model of py1sl/nuc_modelling: the semi-empirical mass formula           *)
(* (src/main.py, SEMF) and the decay / radiation formula set               *)
(* (src/radiation.py).                                                     *)
(*                                                                         *)
(* Every function of the library is a pure function of scalar arguments.   *)
(* The state of the model is the caller's view: the call made last (cur),  *)
(* with its arguments and its outcome (a returned value or a raised        *)
(* exception), the call made before it when the caller derived the last    *)
(* call from it (prev), and the call before that one (first).  The         *)
(* particle objects of src/main.py and the force functions have a          *)
(* specification of their own, SpecParticles.                              *)
(*                                                                         *)
(* Python floats are binary floating-point numbers.  They are modelled as  *)
(* binary floating-point numbers m * 2^e with a Prec-bit significand and   *)
(* round-to-nearest-even after every operation, as IEEE-754 prescribes;    *)
(* the exponent is unbounded, so the model covers the range in which no    *)
(* operation overflows or underflows.                                      *)
(***************************************************************************)
EXTENDS Integers, Sequences, FiniteSets

(***************************************************************************)
(* Bounds of the model.                                                    *)
(***************************************************************************)
\* bits of the significand of a modelled float (an IEEE double has 53)
Prec == 8
\* real arguments are drawn from { k/2 : k \in -2 .. MaxNum } and {1/3, 2/3}
MaxNum == 4
\* neutron and proton counts are drawn from 0 .. MaxN
MaxN == 7

(***************************************************************************)
(* Binary floating point.  A float is [m |-> significand, e |-> exponent], *)
(* its value is m * 2^e; it is zero (m = 0, e = 0) or normalised           *)
(* (2^(Prec-1) <= |m| < 2^Prec).                                           *)
(***************************************************************************)
RECURSIVE Pow2(_)
Pow2(k) == IF k <= 0 THEN 1 ELSE 2 * Pow2(k - 1)

RECURSIVE Bits(_)
\* number of binary digits of n >= 0
Bits(n) == IF n = 0 THEN 0 ELSE 1 + Bits(n \div 2)

Abs(n) == IF n < 0 THEN -n ELSE n

Sgn(n) == IF n < 0 THEN -1 ELSE IF n > 0 THEN 1 ELSE 0

Zero == [m |-> 0, e |-> 0]

\* The float nearest to sign * (n + f) * 2^e, where n >= 0 is an integer and
\* 0 <= f < 1 is a fraction known only as sticky (f > 0); ties go to the even
\* significand.  When sticky is set n has more than Prec bits.
Round(sign, n, e, sticky) ==
    IF n = 0 THEN Zero
    ELSE LET b == Bits(n) IN
         IF b <= Prec
         THEN [m |-> sign * n * Pow2(Prec - b), e |-> e - (Prec - b)]
         ELSE LET sh   == b - Prec
                  q    == n \div Pow2(sh)
                  r    == n % Pow2(sh)
                  half == Pow2(sh - 1)
                  up   == r > half \/ (r = half /\ (sticky \/ q % 2 = 1))
                  q2   == IF up THEN q + 1 ELSE q
              IN IF q2 = Pow2(Prec)
                 THEN [m |-> sign * Pow2(Prec - 1), e |-> e + sh + 1]
                 ELSE [m |-> sign * q2, e |-> e + sh]

\* int -> float conversion
FromInt(n) == Round(Sgn(n), Abs(n), 0, FALSE)

\* the float nearest to the rational num / den (den > 0): how a decimal
\* literal or a mathematical constant becomes a float
FromRatio(num, den) ==
    IF num = 0 THEN Zero
    ELSE LET k0 == Prec + 2 + Bits(den) - Bits(Abs(num))
             k  == IF k0 > 0 THEN k0 ELSE 0
             nn == Abs(num) * Pow2(k)
         IN Round(Sgn(num), nn \div den, -k, nn % den # 0)

FNeg(x) == [m |-> -x.m, e |-> x.e]

\* x * y
FMul(x, y) ==
    Round(Sgn(x.m) * Sgn(y.m), Abs(x.m) * Abs(y.m), x.e + y.e, FALSE)

\* x / y for y # 0
FDiv(x, y) ==
    IF x.m = 0 THEN Zero
    ELSE LET k  == Prec + 2
             nn == Abs(x.m) * Pow2(k)
         IN Round(Sgn(x.m) * Sgn(y.m), nn \div Abs(y.m), x.e - y.e - k,
                  nn % Abs(y.m) # 0)

\* x + y
FAdd(x, y) ==
    IF x.m = 0 THEN y
    ELSE IF y.m = 0 THEN x
    ELSE LET hi == IF x.e >= y.e THEN x ELSE y
             lo == IF x.e >= y.e THEN y ELSE x
             d  == hi.e - lo.e
         IN IF d > Prec + 2 THEN hi
            ELSE LET s == hi.m * Pow2(d) + lo.m
                 IN Round(Sgn(s), Abs(s), lo.e, FALSE)

FSub(x, y) == FAdd(x, FNeg(y))

\* the sign of x - y: the comparisons <, <=, == of two floats are exact
Cmp(x, y) ==
    IF Sgn(x.m) # Sgn(y.m) THEN Sgn(Sgn(x.m) - Sgn(y.m))
    ELSE IF x.m = 0 THEN 0
    ELSE IF x.e = y.e THEN Sgn(x.m - y.m)
    ELSE IF x.e > y.e THEN Sgn(x.m) ELSE -Sgn(x.m)

FLt(x, y) == Cmp(x, y) < 0

FLe(x, y) == Cmp(x, y) <= 0

RECURSIVE IntPow(_, _)
\* b ** k for integers b and k >= 0 (exact: Python integers do not overflow)
IntPow(b, k) == IF k = 0 THEN 1 ELSE b * IntPow(b, k - 1)

RECURSIVE RootScale(_, _, _)
\* the least k >= 0 with t * 2^(q*k) >= 2^(q*Prec)
RootScale(t, q, k) ==
    IF t * IntPow(Pow2(k), q) >= IntPow(Pow2(Prec), q) THEN k
    ELSE RootScale(t, q, k + 1)

RECURSIVE IRoot(_, _, _, _)
\* the greatest r in lo .. hi with r^q <= t (lo^q <= t), by bisection
IRoot(lo, hi, t, q) ==
    IF lo = hi THEN lo
    ELSE LET mid == (lo + hi + 1) \div 2
         IN IF IntPow(mid, q) <= t THEN IRoot(mid, hi, t, q)
            ELSE IRoot(lo, mid - 1, t, q)

\* a ** (p/q) for an integer a >= 0 and a positive float exponent p/q: the
\* float nearest to the real a^(p/q); 0 ** (p/q) is 0.0
FPow(a, p, q) ==
    IF a = 0 THEN Zero
    ELSE LET t  == IntPow(a, p)
             k  == RootScale(t, q, 0)
             tt == t * IntPow(Pow2(k), q)
             r  == IRoot(Pow2(Prec), Pow2(Prec + 1) - 1, tt, q)
         IN Round(1, r, -k, IntPow(r, q) # tt)

(***************************************************************************)
(* Outcomes of a call: a returned value or a raised exception.             *)
(***************************************************************************)
Return(v) == [kind |-> "return", val |-> v, msg |-> ""]

Raise(exc, text) == [kind |-> exc, val |-> Zero, msg |-> text]

(***************************************************************************)
(* src/main.py: the semi-empirical mass formula.                           *)
(***************************************************************************)
\* parameters from Rohlf; a decimal literal is the float nearest to it
aV == FromRatio(1575, 100)

aS == FromRatio(178, 10)

aC == FromRatio(711, 1000)

aA == FromRatio(237, 10)

delta == FromRatio(1118, 100)

\* SEMF_sgn with the second test joined by "or": a nucleus with one odd
\* count is taken for odd-odd
SEMF_sgn_or(n, z) ==
    IF (n % 2) = 0 /\ (z % 2) = 0 THEN 1
    ELSE IF (n % 2) # 0 \/ (z % 2) # 0 THEN -1
    ELSE 0

\* the parity branch of SEMF
SEMF_sgn(n, z) ==
    IF (n % 2) = 0 /\ (z % 2) = 0 THEN 1
    ELSE IF (n % 2) # 0 /\ (z % 2) # 0 THEN -1
    ELSE 0

\* the pairing term sgn * delta / a**(3/2) of E, for a = n + z > 0
SEMF_pairing(n, z) ==
    FDiv(FMul(FromInt(SEMF_sgn(n, z)), delta), FPow(n + z, 3, 2))

\* the expression E of SEMF for a = n + z > 0, evaluated left to right
SEMF_E(n, z) ==
    LET a  == n + z
        t1 == FDiv(aS, FPow(a, 1, 3))
        t2 == FDiv(FMul(aC, FromInt(z * z)), FPow(a, 4, 3))
        t3 == FDiv(FMul(aA, FromInt((a - 2 * z) * (a - 2 * z))),
                   FromInt(a * a))
    IN FAdd(FSub(FSub(FSub(aV, t1), t2), t3), SEMF_pairing(n, z))

\* SEMF(n, z): at a = 0 the first division, aS / a**(1/3), divides by 0.0
\* SEMF validating the mass number before the arithmetic
SEMF_checked(n, z) ==
    IF n + z <= 0
    THEN Raise("ValueError", "Mass number must be positive")
    ELSE Return(SEMF_E(n, z))

SEMF(n, z) ==
    IF FPow(n + z, 1, 3).m = 0
    THEN Raise("ZeroDivisionError", "float division by zero")
    ELSE Return(SEMF_E(n, z))

\* the local variables of SEMF when it returns or raises: sgn is assigned
\* before E is evaluated, the pairing term only when the divisions succeed
SEMF_locals(n, z) ==
    [sgn     |-> SEMF_sgn(n, z),
     pairing |-> IF n + z = 0 THEN Zero ELSE SEMF_pairing(n, z)]

(***************************************************************************)
(* src/radiation.py                                                        *)
(***************************************************************************)
\* np.log(2) and np.pi: the floats nearest to ln 2 and pi (given here by
\* rationals that agree with them to seven digits)
LN2 == FromRatio(1143, 1649)

PI == FromRatio(355, 113)

\* the names the module radiation defines
radiation ==
    {"decay_constant", "half_life", "activity", "radiation_point_source",
     "radiation_infinite_line_source", "radiation_semi_infinite_plane"}

\* decay_constant testing half_life < 0: zero reaches the division
decay_constant_lt(half_life_value) ==
    IF FLt(half_life_value, Zero)
    THEN Raise("ValueError", "Half-life must be positive")
    ELSE IF half_life_value.m = 0
    THEN Raise("ZeroDivisionError", "float division by zero")
    ELSE Return(FDiv(LN2, half_life_value))

\* decay_constant without the factor ln 2
decay_constant_noln(half_life_value) ==
    IF FLe(half_life_value, Zero)
    THEN Raise("ValueError", "Half-life must be positive")
    ELSE Return(FDiv(FromInt(1), half_life_value))

\* decay_constant taking the logarithm of 1/2: ln(1/2) = -ln 2
decay_constant_loghalf(half_life_value) ==
    IF FLe(half_life_value, Zero)
    THEN Raise("ValueError", "Half-life must be positive")
    ELSE Return(FDiv(FNeg(LN2), half_life_value))

decay_constant(half_life_value) ==
    IF FLe(half_life_value, Zero)
    THEN Raise("ValueError", "Half-life must be positive")
    ELSE Return(FDiv(LN2, half_life_value))

\* half_life testing decay_constant < 0: zero reaches the division
half_life_lt(decay_constant_value) ==
    IF FLt(decay_constant_value, Zero)
    THEN Raise("ValueError", "Decay constant must be positive")
    ELSE IF decay_constant_value.m = 0
    THEN Raise("ZeroDivisionError", "float division by zero")
    ELSE Return(FDiv(LN2, decay_constant_value))

half_life(decay_constant_value) ==
    IF FLe(decay_constant_value, Zero)
    THEN Raise("ValueError", "Decay constant must be positive")
    ELSE Return(FDiv(LN2, decay_constant_value))

\* activity rejecting a zero decay constant, as half_life does
activity_le(decay_constant_value, num_nuclei) ==
    IF FLe(decay_constant_value, Zero)
    THEN Raise("ValueError", "Decay constant must be non-negative")
    ELSE IF FLt(num_nuclei, Zero)
    THEN Raise("ValueError", "Number of nuclei must be non-negative")
    ELSE Return(FMul(decay_constant_value, num_nuclei))

activity(decay_constant_value, num_nuclei) ==
    IF FLt(decay_constant_value, Zero)
    THEN Raise("ValueError", "Decay constant must be non-negative")
    ELSE IF FLt(num_nuclei, Zero)
    THEN Raise("ValueError", "Number of nuclei must be non-negative")
    ELSE Return(FMul(decay_constant_value, num_nuclei))

\* radiation_point_source dividing by distance, not by its square
radiation_point_source_lin(activity_value, distance) ==
    IF FLt(activity_value, Zero)
    THEN Raise("ValueError", "Activity must be non-negative")
    ELSE IF FLe(distance, Zero)
    THEN Raise("ValueError", "Distance must be positive")
    ELSE Return(FDiv(activity_value, FMul(FMul(FromInt(4), PI), distance)))

\* radiation_point_source without the parentheses around the divisor:
\* activity_value / 4 * np.pi * distance**2
radiation_point_source_noparen(activity_value, distance) ==
    IF FLt(activity_value, Zero)
    THEN Raise("ValueError", "Activity must be non-negative")
    ELSE IF FLe(distance, Zero)
    THEN Raise("ValueError", "Distance must be positive")
    ELSE Return(FMul(FMul(FDiv(activity_value, FromInt(4)), PI),
                     FMul(distance, distance)))

\* radiation_point_source testing the distance before the activity
radiation_point_source_swapped(activity_value, distance) ==
    IF FLe(distance, Zero)
    THEN Raise("ValueError", "Distance must be positive")
    ELSE IF FLt(activity_value, Zero)
    THEN Raise("ValueError", "Activity must be non-negative")
    ELSE Return(FDiv(activity_value,
                     FMul(FMul(FromInt(4), PI), FMul(distance, distance))))

radiation_point_source(activity_value, distance) ==
    IF FLt(activity_value, Zero)
    THEN Raise("ValueError", "Activity must be non-negative")
    ELSE IF FLe(distance, Zero)
    THEN Raise("ValueError", "Distance must be positive")
    ELSE Return(FDiv(activity_value,
                     FMul(FMul(FromInt(4), PI), FMul(distance, distance))))

\* radiation_infinite_line_source testing distance < 0: zero reaches the
\* division
radiation_infinite_line_source_lt(activity_per_length, distance) ==
    IF FLt(activity_per_length, Zero)
    THEN Raise("ValueError", "Activity per length must be non-negative")
    ELSE IF FLt(distance, Zero)
    THEN Raise("ValueError", "Distance must be positive")
    ELSE IF distance.m = 0
    THEN Raise("ZeroDivisionError", "float division by zero")
    ELSE Return(FDiv(activity_per_length, FMul(FMul(FromInt(2), PI), distance)))

\* radiation_infinite_line_source dividing by the square of the distance
radiation_infinite_line_source_sq(activity_per_length, distance) ==
    IF FLt(activity_per_length, Zero)
    THEN Raise("ValueError", "Activity per length must be non-negative")
    ELSE IF FLe(distance, Zero)
    THEN Raise("ValueError", "Distance must be positive")
    ELSE Return(FDiv(activity_per_length,
                     FMul(FMul(FromInt(2), PI), FMul(distance, distance))))

radiation_infinite_line_source(activity_per_length, distance) ==
    IF FLt(activity_per_length, Zero)
    THEN Raise("ValueError", "Activity per length must be non-negative")
    ELSE IF FLe(distance, Zero)
    THEN Raise("ValueError", "Distance must be positive")
    ELSE Return(FDiv(activity_per_length, FMul(FMul(FromInt(2), PI), distance)))

\* radiation_semi_infinite_plane spreading the flux over a supplied distance
\* as the line source does
radiation_semi_infinite_plane_att(activity_per_area, distance) ==
    IF FLt(activity_per_area, Zero)
    THEN Raise("ValueError", "Activity per area must be non-negative")
    ELSE IF distance # <<>> /\ FLt(distance[1], Zero)
    THEN Raise("ValueError", "Distance must be non-negative")
    ELSE IF distance # <<>> /\ distance[1].m # 0
    THEN Return(FDiv(activity_per_area, FMul(FromInt(2), distance[1])))
    ELSE Return(FDiv(activity_per_area, FromInt(2)))

\* radiation_semi_infinite_plane rejecting a supplied distance of zero, as
\* the point and line sources do
radiation_semi_infinite_plane_le(activity_per_area, distance) ==
    IF FLt(activity_per_area, Zero)
    THEN Raise("ValueError", "Activity per area must be non-negative")
    ELSE IF distance # <<>> /\ FLe(distance[1], Zero)
    THEN Raise("ValueError", "Distance must be non-negative")
    ELSE Return(FDiv(activity_per_area, FromInt(2)))

\* distance is <<>> for None (the default) and <<d>> for a supplied d
radiation_semi_infinite_plane(activity_per_area, distance) ==
    IF FLt(activity_per_area, Zero)
    THEN Raise("ValueError", "Activity per area must be non-negative")
    ELSE IF distance # <<>> /\ FLt(distance[1], Zero)
    THEN Raise("ValueError", "Distance must be non-negative")
    ELSE Return(FDiv(activity_per_area, FromInt(2)))

RECURSIVE ExpSeries(_, _)
\* 1 - y/k * (1 - y/(k+1) * ( ... )): the series of exp(-y) from its k-th
\* term, cut after the fifth (0 <= y <= 1/2)
ExpSeries(y, k) ==
    IF k > 5 THEN FromInt(1)
    ELSE FSub(FromInt(1), FMul(FDiv(y, FromInt(k)), ExpSeries(y, k + 1)))

RECURSIVE SquareTimes(_, _)
SquareTimes(v, s) == IF s <= 0 THEN v ELSE SquareTimes(FMul(v, v), s - 1)

\* np.exp(-x) for x >= 0: exp(-x / 2^s) by its series, squared s times
ExpNeg(x) ==
    LET s == IF Prec + x.e + 1 > 0 THEN Prec + x.e + 1 ELSE 0
    IN SquareTimes(ExpSeries([m |-> x.m, e |-> x.e - s], 1), s)

\* activity_at_time as section 4.3 of the specification describes it; the
\* module radiation does not define it
activity_at_time_spec(initial_activity, decay_constant_value, time) ==
    IF FLt(initial_activity, Zero)
    THEN Raise("ValueError", "Initial activity must be non-negative")
    ELSE IF FLt(decay_constant_value, Zero)
    THEN Raise("ValueError", "Decay constant must be non-negative")
    ELSE IF FLt(time, Zero)
    THEN Raise("ValueError", "Time must be non-negative")
    ELSE Return(FMul(initial_activity,
                     ExpNeg(FMul(decay_constant_value, time))))

\* a call of the name fn of the module radiation: a name the module does not
\* define cannot be imported from it
Invoke(fn, args) ==
    IF fn \notin radiation
    THEN Raise("ImportError", "cannot import name")
    ELSE CASE fn = "decay_constant" -> decay_constant(args[1])
           [] fn = "half_life" -> half_life(args[1])
           [] fn = "activity" -> activity(args[1], args[2])
           [] fn = "radiation_point_source" ->
                  radiation_point_source(args[1], args[2])
           [] fn = "radiation_infinite_line_source" ->
                  radiation_infinite_line_source(args[1], args[2])
           [] fn = "radiation_semi_infinite_plane" ->
                  radiation_semi_infinite_plane(args[1], args[2])

(***************************************************************************)
(* The caller.                                                             *)
(***************************************************************************)
VARIABLES
    cur,        \* the last call: function, arguments, outcome, locals
    prev,       \* the call the caller derived cur from, or NoCall
    first,      \* the call the caller derived prev from, or NoCall
    particles,  \* the particle objects the caller holds, by name
    force       \* the last call of a force function, or NoForce

vars == <<cur, prev, first, particles, force>>

NoCall ==
    [fn |-> "none", args |-> <<>>, out |-> Raise("none", ""), locals |-> <<>>]

\* the real arguments a caller passes: the halves from -1 to MaxNum / 2, and
\* 1/3 and 2/3, which no float represents exactly
Reals ==
    {FromRatio(k, 2) : k \in -2 .. MaxNum} \cup {FromRatio(k, 3) : k \in 1 .. 2}

\* the optional distance argument: omitted or supplied
OptReals == {<<>>} \cup {<<d>> : d \in Reals}

Nucleons == 0 .. MaxN

Called(fn, args) ==
    [fn |-> fn, args |-> args, out |-> Invoke(fn, args), locals |-> <<>>]

\* the names the caller binds particle objects to
ParticleIds == {"p1", "p2"}

\* the name is not bound yet
NoParticle == <<>>

NoForce == [fn |-> "none", args |-> <<>>, ret |-> 0, before |-> <<>>]

Init ==
    /\ cur = NoCall /\ prev = NoCall /\ first = NoCall
    /\ particles = [id \in ParticleIds |-> NoParticle]
    /\ force = NoForce

\* the caller has no result at hand
Idle == cur = NoCall

\* a first call, with arguments of the caller's choice
Fresh(call) ==
    /\ cur' = call /\ prev' = NoCall /\ first' = NoCall
    /\ UNCHANGED <<particles, force>>

\* the caller has the result of a first call at hand
Returned == cur.out.kind = "return" /\ prev = NoCall

\* a call derived from the last call
Derived(call) ==
    /\ cur' = call /\ prev' = cur /\ first' = prev
    /\ UNCHANGED <<particles, force>>

Call_SEMF ==
    /\ Idle
    /\ \E n \in Nucleons, z \in Nucleons :
        Fresh([fn |-> "SEMF", args |-> <<n, z>>, out |-> SEMF(n, z),
               locals |-> SEMF_locals(n, z)])

Call_decay_constant ==
    /\ Idle
    /\ \E h \in Reals : Fresh(Called("decay_constant", <<h>>))

Call_half_life ==
    /\ Idle
    /\ \E l \in Reals : Fresh(Called("half_life", <<l>>))

Call_activity ==
    /\ Idle
    /\ \E l \in Reals, n \in Reals : Fresh(Called("activity", <<l, n>>))

Call_activity_at_time ==
    /\ Idle
    /\ \E a0 \in Reals, l \in Reals, t \in Reals :
        Fresh(Called("activity_at_time", <<a0, l, t>>))

Call_radiation_point_source ==
    /\ Idle
    /\ \E a \in Reals, d \in Reals :
        Fresh(Called("radiation_point_source", <<a, d>>))

Call_radiation_infinite_line_source ==
    /\ Idle
    /\ \E a \in Reals, d \in Reals :
        Fresh(Called("radiation_infinite_line_source", <<a, d>>))

Call_radiation_semi_infinite_plane ==
    /\ Idle
    /\ \E a \in Reals, d \in OptReals :
        Fresh(Called("radiation_semi_infinite_plane", <<a, d>>))

\* the value a call returned is passed on as the first argument of the next
Pass_decay_constant ==
    /\ Returned
    /\ Derived(Called("decay_constant", <<cur.out.val>>))

Pass_half_life ==
    /\ Returned
    /\ Derived(Called("half_life", <<cur.out.val>>))

Pass_activity ==
    /\ Returned
    /\ \E n \in Reals : Derived(Called("activity", <<cur.out.val, n>>))

Pass_radiation_point_source ==
    /\ Returned
    /\ \E d \in Reals :
           Derived(Called("radiation_point_source", <<cur.out.val, d>>))

Pass_radiation_infinite_line_source ==
    /\ Returned
    /\ \E d \in Reals :
           Derived(Called("radiation_infinite_line_source", <<cur.out.val, d>>))

Pass_radiation_semi_infinite_plane ==
    /\ Returned
    /\ \E d \in OptReals :
           Derived(Called("radiation_semi_infinite_plane", <<cur.out.val, d>>))

\* the same source seen from another distance, or the same sample at another
\* time: the last call repeated with its last argument changed
Again ==
    /\ cur.fn \in {"radiation_point_source", "radiation_infinite_line_source",
                   "activity_at_time"}
    /\ prev = NoCall
    /\ \E x \in Reals :
           Derived(Called(cur.fn, [cur.args EXCEPT ![Len(cur.args)] = x]))

\* the same plane source seen from another distance, or with the distance
\* omitted
Again_plane ==
    /\ cur.fn = "radiation_semi_infinite_plane"
    /\ prev = NoCall
    /\ \E d \in OptReals :
           Derived(Called(cur.fn, <<cur.args[1], d>>))

\* the point source compared with a line source of the same strength at the
\* same distance
Same_line ==
    /\ cur.fn = "radiation_point_source"
    /\ prev = NoCall
    /\ Derived(Called("radiation_infinite_line_source", cur.args))

\* and then with a plane source of the same strength
Same_plane ==
    /\ cur.fn = "radiation_infinite_line_source"
    /\ prev.fn = "radiation_point_source"
    /\ prev.args = cur.args
    /\ first = NoCall
    /\ Derived(Called("radiation_semi_infinite_plane", <<cur.args[1], <<>>>>))

\* the caller has the activity of a sample computed from its half-life
Chained ==
    /\ cur.fn = "activity"
    /\ cur.out.kind = "return"
    /\ prev.fn = "decay_constant"
    /\ first = NoCall

Chain_radiation_point_source ==
    /\ Chained
    /\ \E d \in Reals :
           Derived(Called("radiation_point_source", <<cur.out.val, d>>))

Chain_radiation_infinite_line_source ==
    /\ Chained
    /\ \E d \in Reals :
           Derived(Called("radiation_infinite_line_source", <<cur.out.val, d>>))

Chain_radiation_semi_infinite_plane ==
    /\ Chained
    /\ \E d \in OptReals :
           Derived(Called("radiation_semi_infinite_plane", <<cur.out.val, d>>))

\* the caller is done with the results
Discard ==
    /\ cur # NoCall
    /\ cur' = NoCall /\ prev' = NoCall /\ first' = NoCall
    /\ UNCHANGED <<particles, force>>

Next ==
    \/ Call_SEMF
    \/ Call_decay_constant
    \/ Call_half_life
    \/ Call_activity
    \/ Call_activity_at_time
    \/ Call_radiation_point_source
    \/ Call_radiation_infinite_line_source
    \/ Call_radiation_semi_infinite_plane
    \/ Pass_decay_constant
    \/ Pass_half_life
    \/ Pass_activity
    \/ Pass_radiation_point_source
    \/ Pass_radiation_infinite_line_source
    \/ Pass_radiation_semi_infinite_plane
    \/ Again
    \/ Again_plane
    \/ Same_line
    \/ Same_plane
    \/ Chain_radiation_point_source
    \/ Chain_radiation_infinite_line_source
    \/ Chain_radiation_semi_infinite_plane
    \/ Discard

Spec == Init /\ [][Next]_vars

(***************************************************************************)
(* The particle objects and the force functions (src/main.py).  A particle *)
(* is a mutable object: the caller binds it to a name, assigns to its      *)
(* attributes and passes it by reference, so a force function is modelled  *)
(* by the value it returns together with the state in which it leaves its  *)
(* two arguments.                                                          *)
(***************************************************************************)
\* particle.__init__
particle ==
    [charge |-> 0, mass_amu |-> 1, energy |-> 100, rest_mass |-> 0,
     name |-> "ball", symbol |-> "b",
     x |-> 0, y |-> 0, z |-> 0, u |-> 0, v |-> 0, w |-> 0]

\* em_force pushing the first particle along x by the product of the charges
em_force_kick(p1, p2) ==
    [ret |-> 0, p1 |-> [p1 EXCEPT !.u = p1.charge * p2.charge], p2 |-> p2]

em_force(p1, p2) == [ret |-> 0, p1 |-> p1, p2 |-> p2]

strong_force(p1, p2) == [ret |-> 0, p1 |-> p1, p2 |-> p2]

Bound == {id \in ParticleIds : particles[id] # NoParticle}

\* the objects after a call that leaves its arguments as r.p1 and r.p2
Heap(i, j, r) == [particles EXCEPT ![i] = r.p1, ![j] = r.p2]

ForceCalled(fn, i, j, r) ==
    /\ particles' = Heap(i, j, r)
    /\ force' = [fn |-> fn, args |-> <<i, j>>, ret |-> r.ret,
                 before |-> particles]
    /\ UNCHANGED <<cur, prev, first>>

\* the caller changes an object: the result of the last force call is stale
Assigned(heap) ==
    /\ particles' = heap
    /\ force' = NoForce
    /\ UNCHANGED <<cur, prev, first>>

New_particle ==
    /\ Bound # ParticleIds
    /\ \E id \in ParticleIds \ Bound :
           Assigned([particles EXCEPT ![id] = particle])

Set_charge ==
    /\ Bound # {}
    /\ \E id \in Bound, c \in {-1, 1} :
           Assigned([particles EXCEPT ![id].charge = c])

Set_mass_amu ==
    /\ Bound # {}
    /\ \E id \in Bound : Assigned([particles EXCEPT ![id].mass_amu = 2])

Set_energy ==
    /\ Bound # {}
    /\ \E id \in Bound : Assigned([particles EXCEPT ![id].energy = 200])

Set_name ==
    /\ Bound # {}
    /\ \E id \in Bound : Assigned([particles EXCEPT ![id].name = "proton"])

Call_em_force ==
    /\ Bound # {}
    /\ \E i \in Bound, j \in Bound :
           ForceCalled("em_force", i, j, em_force(particles[i], particles[j]))

Call_strong_force ==
    /\ Bound # {}
    /\ \E i \in Bound, j \in Bound :
           ForceCalled("strong_force", i, j,
                       strong_force(particles[i], particles[j]))

NextParticles ==
    \/ New_particle
    \/ Set_charge
    \/ Set_mass_amu
    \/ Set_energy
    \/ Set_name
    \/ Call_em_force
    \/ Call_strong_force

SpecParticles == Init /\ [][NextParticles]_vars

(***************************************************************************)
(* Reading the state.                                                      *)
(***************************************************************************)
Neg(x) == x.m < 0

Pos(x) == x.m > 0

IsZero(x) == x.m = 0

\* x and y agree up to rounding: they differ by at most 8 units of
\* roundoff (2^-Prec) of y
Close(x, y) ==
    IF x.m = 0 \/ y.m = 0 THEN x.m = y.m
    ELSE LET e0 == IF x.e < y.e THEN x.e ELSE y.e
             xs == x.m * Pow2(x.e - e0)
             ys == y.m * Pow2(y.e - e0)
         IN /\ Abs(x.e - y.e) <= 2
            /\ Abs(xs - ys) * Pow2(Prec - 3) <= Abs(ys)

\* ln 2 as the specification quotes it (0.6931, section 8)
Ln2Quoted == FromRatio(6931, 10000)

Even(n) == \E k \in 0 .. n : n = 2 * k

RECURSIVE OddPart(_)
\* n > 0 without its factors 2
OddPart(n) == IF n % 2 = 0 THEN OddPart(n \div 2) ELSE n

\* the float nearest to (y / x)^2 for floats x, y > 0, from their exact values
SquaredRatio(x, y) ==
    LET ox == OddPart(x.m)
        oy == OddPart(y.m)
        ex == x.e + Bits(x.m) - Bits(ox)
        ey == y.e + Bits(y.m) - Bits(oy)
        r  == FromRatio(oy * oy, ox * ox)
    IN [m |-> r.m, e |-> r.e + 2 * (ey - ex)]

\* y is 2 * x
Double(x, y) == y.m = x.m /\ y.e = x.e + 1

RaisedValueError(call, text) ==
    call.out.kind = "ValueError" /\ call.out.msg = text

HasReturned(call) == call.out.kind = "return"

(***************************************************************************)
(* C1.  In SEMF the pairing sign is a three-way branch on parity: +1       *)
(* exactly for even n and even z, -1 exactly for odd n and odd z, 0        *)
(* exactly when one is even and the other odd; for n + z > 0 the pairing   *)
(* term sgn * delta / a^(3/2) is positive, negative and zero accordingly.  *)
(***************************************************************************)
C1_PairingSign ==
    cur.fn = "SEMF" =>
        LET n   == cur.args[1]
            z   == cur.args[2]
            sgn == cur.locals.sgn
        IN /\ sgn \in {-1, 0, 1}
           /\ (sgn = 1) = (Even(n) /\ Even(z))
           /\ (sgn = -1) = (~Even(n) /\ ~Even(z))
           /\ (sgn = 0) = (Even(n) # Even(z))
           /\ n + z > 0 =>
                  /\ HasReturned(cur)
                  /\ (Even(n) /\ Even(z)) => Pos(cur.locals.pairing)
                  /\ (~Even(n) /\ ~Even(z)) => Neg(cur.locals.pairing)
                  /\ (Even(n) # Even(z)) => IsZero(cur.locals.pairing)

\* SEMF(1, 1), odd-odd, has returned with a negative pairing term
C1_Witness ==
    /\ cur.fn = "SEMF" /\ cur.args = <<1, 1>>
    /\ HasReturned(cur) /\ Neg(cur.locals.pairing)

(***************************************************************************)
(* C2.  decay_constant(half_life) raises ValueError "Half-life must be     *)
(* positive" exactly when half_life <= 0 (zero included); for every        *)
(* half_life > 0 it returns ln(2) / half_life: the value returned, times   *)
(* half_life, is ln 2 up to rounding.                                      *)
(***************************************************************************)
C2_DecayConstant ==
    cur.fn = "decay_constant" =>
        LET h == cur.args[1]
        IN /\ cur.out.kind \in {"return", "ValueError"}
           /\ ~Pos(h) <=> RaisedValueError(cur, "Half-life must be positive")
           /\ Pos(h) => /\ HasReturned(cur)
                        /\ Close(FMul(cur.out.val, h), Ln2Quoted)

\* decay_constant(0) has raised
C2_Witness ==
    /\ cur.fn = "decay_constant" /\ IsZero(cur.args[1])
    /\ RaisedValueError(cur, "Half-life must be positive")

(***************************************************************************)
(* C3.  half_life(decay_constant) raises ValueError "Decay constant must   *)
(* be positive" exactly when decay_constant <= 0 (zero included); for      *)
(* every decay_constant > 0 it returns ln(2) / decay_constant.             *)
(***************************************************************************)
C3_HalfLife ==
    cur.fn = "half_life" =>
        LET l == cur.args[1]
        IN /\ cur.out.kind \in {"return", "ValueError"}
           /\ ~Pos(l) <=>
                  RaisedValueError(cur, "Decay constant must be positive")
           /\ Pos(l) => /\ HasReturned(cur)
                        /\ Close(FMul(cur.out.val, l), Ln2Quoted)

\* half_life(0) has raised
C3_Witness ==
    /\ cur.fn = "half_life" /\ IsZero(cur.args[1])
    /\ RaisedValueError(cur, "Decay constant must be positive")

(***************************************************************************)
(* C4.  decay_constant and half_life are inverse: for every half_life      *)
(* h > 0, decay_constant(h) returns, and half_life of the value it         *)
(* returned returns h up to rounding.                                      *)
(***************************************************************************)
C4_RoundTrip ==
    /\ (cur.fn = "decay_constant" /\ Pos(cur.args[1])) => HasReturned(cur)
    /\ (/\ cur.fn = "half_life"
        /\ prev.fn = "decay_constant"
        /\ Pos(prev.args[1])
        /\ cur.args[1] = prev.out.val)
       => /\ HasReturned(cur)
          /\ Close(cur.out.val, prev.args[1])

\* half_life(decay_constant(3/2)) has returned
C4_Witness ==
    /\ prev.fn = "decay_constant" /\ prev.args[1] = FromRatio(3, 2)
    /\ cur.fn = "half_life" /\ cur.args[1] = prev.out.val
    /\ HasReturned(cur)

(***************************************************************************)
(* C5.  activity(decay_constant, num_nuclei) raises ValueError exactly     *)
(* when decay_constant < 0 or num_nuclei < 0; otherwise it returns         *)
(* decay_constant * num_nuclei, and a zero decay constant or a zero        *)
(* number of nuclei gives 0, not an error.                                 *)
(***************************************************************************)
C5_Activity ==
    cur.fn = "activity" =>
        LET l == cur.args[1]
            n == cur.args[2]
        IN /\ cur.out.kind \in {"return", "ValueError"}
           /\ (Neg(l) \/ Neg(n)) <=> cur.out.kind = "ValueError"
           /\ (IsZero(l) \/ IsZero(n)) /\ ~Neg(l) /\ ~Neg(n)
                  => cur.out = Return(Zero)
           /\ (Pos(l) /\ Pos(n))
                  => /\ HasReturned(cur)
                     /\ Close(FDiv(cur.out.val, n), l)

\* activity(0, 2) has returned 0
C5_Witness ==
    /\ cur.fn = "activity" /\ IsZero(cur.args[1])
    /\ cur.args[2] = FromInt(2) /\ cur.out = Return(Zero)

(***************************************************************************)
(* C6.  The module radiation provides activity_at_time(initial_activity,   *)
(* decay_constant, time): it raises ValueError, with the message of a      *)
(* negative argument, when an argument is negative, and otherwise returns  *)
(* initial_activity * exp(-decay_constant * time).                         *)
(* The module does not define the name, so a caller never gets either.     *)
(***************************************************************************)
C6_ActivityAtTimeProvided ==
    cur.fn = "activity_at_time" =>
        LET a0 == cur.args[1]
            l  == cur.args[2]
            t  == cur.args[3]
        IN IF Neg(a0) \/ Neg(l) \/ Neg(t)
           THEN /\ cur.out.kind = "ValueError"
                /\ \/ Neg(a0) /\ cur.out.msg =
                                     "Initial activity must be non-negative"
                   \/ Neg(l) /\ cur.out.msg =
                                    "Decay constant must be non-negative"
                   \/ Neg(t) /\ cur.out.msg = "Time must be non-negative"
           ELSE /\ HasReturned(cur)
                /\ Close(cur.out.val, activity_at_time_spec(a0, l, t).val)

(***************************************************************************)
(* C7.  For initial activity A0 >= 0, decay_constant >= 0 and time >= 0,   *)
(* activity_at_time returns a value that equals A0 at time 0 and, with     *)
(* decay_constant = 0, at every time, and that does not increase with      *)
(* time.  Since the module does not define activity_at_time (C6), no call  *)
(* returns a value.                                                        *)
(***************************************************************************)
C7_ActivityAtTimeDecays ==
    (/\ cur.fn = "activity_at_time"
     /\ ~Neg(cur.args[1]) /\ ~Neg(cur.args[2]) /\ ~Neg(cur.args[3]))
    => /\ HasReturned(cur)
       /\ (IsZero(cur.args[3]) \/ IsZero(cur.args[2]))
              => Close(cur.out.val, cur.args[1])
       /\ (/\ prev.fn = "activity_at_time"
           /\ ~Neg(prev.args[3])
           /\ FLe(prev.args[3], cur.args[3]))
              => /\ HasReturned(prev)
                 /\ FLe(cur.out.val, prev.out.val)

(***************************************************************************)
(* C8.  radiation_point_source and radiation_infinite_line_source raise    *)
(* ValueError exactly when the source strength is < 0 or the distance is   *)
(* <= 0 (distance zero is rejected); for strength >= 0 and distance > 0    *)
(* they return, and a strength of zero returns 0.                          *)
(***************************************************************************)
C8_PointLineValidation ==
    cur.fn \in {"radiation_point_source", "radiation_infinite_line_source"} =>
        LET a == cur.args[1]
            d == cur.args[2]
        IN /\ cur.out.kind \in {"return", "ValueError"}
           /\ (Neg(a) \/ ~Pos(d)) <=> cur.out.kind = "ValueError"
           /\ (~Neg(a) /\ Pos(d)) => HasReturned(cur)
           /\ (IsZero(a) /\ Pos(d)) => cur.out = Return(Zero)

\* the line source at distance 0 has raised
C8_Witness ==
    /\ cur.fn = "radiation_infinite_line_source"
    /\ Pos(cur.args[1]) /\ IsZero(cur.args[2])
    /\ RaisedValueError(cur, "Distance must be positive")

(***************************************************************************)
(* C9.  Point-source flux follows the inverse-square law: for a fixed      *)
(* activity > 0 and distances d1, d2 > 0 the ratio of the flux at d1 to    *)
(* the flux at d2 is (d2 / d1)^2 up to rounding, and it is 4 when          *)
(* d2 = 2 * d1.                                                            *)
(***************************************************************************)
C9_InverseSquare ==
    (/\ cur.fn = "radiation_point_source"
     /\ prev.fn = "radiation_point_source"
     /\ cur.args[1] = prev.args[1] /\ Pos(cur.args[1])
     /\ Pos(prev.args[2]) /\ Pos(cur.args[2]))
    => /\ HasReturned(prev) /\ HasReturned(cur)
       /\ Pos(cur.out.val)
       /\ Close(FDiv(prev.out.val, cur.out.val),
                SquaredRatio(prev.args[2], cur.args[2]))
       /\ Double(prev.args[2], cur.args[2])
              => FDiv(prev.out.val, cur.out.val) = FromInt(4)

\* the flux of one source was taken at d = 1/2 and then at 2d = 1
C9_Witness ==
    /\ prev.fn = "radiation_point_source" /\ cur.fn = "radiation_point_source"
    /\ cur.args[1] = prev.args[1] /\ Pos(cur.args[1])
    /\ prev.args[2] = FromRatio(1, 2) /\ cur.args[2] = FromInt(1)
    /\ HasReturned(prev) /\ HasReturned(cur)

(***************************************************************************)
(* C10.  Line-source flux follows the inverse-distance law: for a fixed    *)
(* activity per length > 0 and every distance d > 0 the ratio of the flux  *)
(* at d to the flux at 2d is 2.                                            *)
(***************************************************************************)
C10_InverseDistance ==
    (/\ cur.fn = "radiation_infinite_line_source"
     /\ prev.fn = "radiation_infinite_line_source"
     /\ cur.args[1] = prev.args[1] /\ Pos(cur.args[1])
     /\ Pos(prev.args[2])
     /\ Double(prev.args[2], cur.args[2]))
    => /\ HasReturned(prev) /\ HasReturned(cur)
       /\ Pos(cur.out.val)
       /\ FDiv(prev.out.val, cur.out.val) = FromInt(2)

\* the flux of one line source was taken at d = 1 and then at 2d = 2
C10_Witness ==
    /\ prev.fn = "radiation_infinite_line_source"
    /\ cur.fn = "radiation_infinite_line_source"
    /\ cur.args[1] = prev.args[1] /\ Pos(cur.args[1])
    /\ prev.args[2] = FromInt(1) /\ cur.args[2] = FromInt(2)
    /\ HasReturned(prev) /\ HasReturned(cur)

(***************************************************************************)
(* C11.  Plane-source flux does not depend on the distance: for every      *)
(* activity per area a >= 0 the call returns a / 2 whether the distance is *)
(* omitted or any d >= 0 (0 included), so two calls for the same a with    *)
(* such distances return the same value.                                   *)
(***************************************************************************)
\* the distance of a plane-source call is omitted or not negative
PlaneDistanceOk(call) == call.args[2] = <<>> \/ ~Neg(call.args[2][1])

C11_PlaneInvariant ==
    (/\ cur.fn = "radiation_semi_infinite_plane"
     /\ ~Neg(cur.args[1])
     /\ PlaneDistanceOk(cur))
    => /\ HasReturned(cur)
       /\ FMul(cur.out.val, FromInt(2)) = cur.args[1]
       /\ (/\ prev.fn = "radiation_semi_infinite_plane"
           /\ prev.args[1] = cur.args[1]
           /\ PlaneDistanceOk(prev))
          => cur.out = prev.out

\* the flux of one plane source was taken at distance 0 and then at 3/2
C11_Witness ==
    /\ prev.fn = "radiation_semi_infinite_plane"
    /\ cur.fn = "radiation_semi_infinite_plane"
    /\ Pos(cur.args[1]) /\ prev.args[1] = cur.args[1]
    /\ prev.args[2] = <<Zero>> /\ cur.args[2] = <<FromRatio(3, 2)>>
    /\ HasReturned(prev) /\ HasReturned(cur)

(***************************************************************************)
(* C12.  radiation_semi_infinite_plane raises ValueError exactly when      *)
(* activity_per_area < 0, or when a distance is supplied and negative; an  *)
(* omitted distance and a supplied distance of 0 never make it fail.       *)
(***************************************************************************)
C12_PlaneValidation ==
    cur.fn = "radiation_semi_infinite_plane" =>
        LET a == cur.args[1]
            d == cur.args[2]
        IN /\ cur.out.kind \in {"return", "ValueError"}
           /\ (Neg(a) \/ (d # <<>> /\ Neg(d[1])))
                  <=> cur.out.kind = "ValueError"
           /\ (~Neg(a) /\ (d = <<>> \/ IsZero(d[1]))) => HasReturned(cur)

\* the plane source with a supplied distance of 0 has returned
C12_Witness ==
    /\ cur.fn = "radiation_semi_infinite_plane"
    /\ Pos(cur.args[1]) /\ cur.args[2] = <<Zero>>
    /\ HasReturned(cur)

(***************************************************************************)
(* C13.  SEMF validates nothing: no call raises ValueError; the call with  *)
(* n = 0 and z = 0 (mass number 0) ends in ZeroDivisionError; every other  *)
(* pair of non-negative counts, n = 0 alone and z = 0 alone included,      *)
(* returns a number.                                                       *)
(***************************************************************************)
C13_SEMFUnvalidated ==
    cur.fn = "SEMF" =>
        LET n == cur.args[1]
            z == cur.args[2]
        IN /\ cur.out.kind # "ValueError"
           /\ (n = 0 /\ z = 0) => cur.out.kind = "ZeroDivisionError"
           /\ (n > 0 \/ z > 0) => HasReturned(cur)

\* SEMF(0, 0) has ended in the division fault
C13_Witness ==
    /\ cur.fn = "SEMF"
    /\ cur.args = <<0, 0>>
    /\ cur.out.kind = "ZeroDivisionError"

\* SEMF has returned for a nucleus of neutrons only and one of protons only
C13_WitnessOneZero ==
    /\ cur.fn = "SEMF"
    /\ cur.args \in {<<0, 3>>, <<3, 0>>}
    /\ HasReturned(cur)

(***************************************************************************)
(* C15.  em_force and strong_force return 0 for every pair of particles,   *)
(* whatever the attribute values, and leave every attribute of both        *)
(* particles as it was; a particle, when constructed, has charge 0,        *)
(* mass_amu 1, energy 100, rest_mass 0, name "ball", symbol "b" and zero   *)
(* position (x, y, z) and velocity (u, v, w).                              *)
(***************************************************************************)
C15_ForceLeavesParticles ==
    force # NoForce => force.ret = 0 /\ particles = force.before

C15_FreshParticle ==
    \A id \in ParticleIds :
        (particles[id] = NoParticle /\ particles'[id] # NoParticle) =>
            LET p == particles'[id]
            IN /\ p.charge = 0 /\ p.mass_amu = 1 /\ p.energy = 100
               /\ p.rest_mass = 0 /\ p.name = "ball" /\ p.symbol = "b"
               /\ p.x = 0 /\ p.y = 0 /\ p.z = 0
               /\ p.u = 0 /\ p.v = 0 /\ p.w = 0

C15_Forces == [][C15_FreshParticle]_vars /\ []C15_ForceLeavesParticles

\* a force function was called on two distinct particles with charges that
\* the caller has set
C15_Witness ==
    /\ force.fn \in {"em_force", "strong_force"}
    /\ force.args = <<"p1", "p2">>
    /\ particles["p1"].charge = 1 /\ particles["p2"].charge = -1
    /\ particles["p2"].name = "proton"

(***************************************************************************)
(* C16.  For one positive source strength S, at distance 1, the three      *)
(* geometries are strictly ordered:                                        *)
(*   plane(S) > line(S, 1) > point(S, 1) > 0.                              *)
(***************************************************************************)
\* the caller has the flux of a point, a line and a plane source of one
\* strength, point and line at distance 1
Compared ==
    /\ first.fn = "radiation_point_source"
    /\ prev.fn = "radiation_infinite_line_source"
    /\ cur.fn = "radiation_semi_infinite_plane"
    /\ first.args[1] = prev.args[1] /\ prev.args[1] = cur.args[1]
    /\ first.args[2] = FromInt(1) /\ prev.args[2] = FromInt(1)

C16_GeometryOrder ==
    (Compared /\ Pos(cur.args[1])) =>
        /\ HasReturned(first) /\ HasReturned(prev) /\ HasReturned(cur)
        /\ FLt(prev.out.val, cur.out.val)
        /\ FLt(first.out.val, prev.out.val)
        /\ Pos(first.out.val)

\* the three fluxes of a source of strength 2/3 are at hand
C16_Witness ==
    /\ Compared
    /\ cur.args[1] = FromRatio(2, 3)
    /\ HasReturned(first) /\ HasReturned(prev) /\ HasReturned(cur)

(***************************************************************************)
(* C17.  Arguments are validated in argument order and before any          *)
(* arithmetic: a call whose first argument is invalid raises the first     *)
(* argument's message even when the second is invalid too, and no call of  *)
(* the radiation functions ends in ZeroDivisionError.                      *)
(***************************************************************************)
FirstMessage(fn) ==
    CASE fn = "activity" -> "Decay constant must be non-negative"
      [] fn = "radiation_point_source" -> "Activity must be non-negative"
      [] fn = "radiation_infinite_line_source" ->
             "Activity per length must be non-negative"
      [] fn = "radiation_semi_infinite_plane" ->
             "Activity per area must be non-negative"

TwoArguments ==
    {"activity", "radiation_point_source", "radiation_infinite_line_source",
     "radiation_semi_infinite_plane"}

C17_ValidationOrder ==
    /\ cur.fn \in radiation => cur.out.kind # "ZeroDivisionError"
    /\ (cur.fn \in TwoArguments /\ Neg(cur.args[1])) =>
           RaisedValueError(cur, FirstMessage(cur.fn))

\* a point source of negative activity at distance 0: both arguments are
\* invalid and the activity's message is raised
C17_Witness ==
    /\ cur.fn = "radiation_point_source"
    /\ Neg(cur.args[1]) /\ IsZero(cur.args[2])
    /\ RaisedValueError(cur, "Activity must be non-negative")

(***************************************************************************)
(* C18.  The chain half-life -> decay constant -> activity -> flux is      *)
(* accepted at every link: for half_life > 0, decay_constant returns a     *)
(* strictly positive value, which half_life and activity accept; for       *)
(* num_nuclei >= 0 the activity returned is not negative, and the point,   *)
(* line (distance > 0) and plane sources accept it; every value a          *)
(* radiation function returns is non-negative.                             *)
(***************************************************************************)
\* prev is decay_constant(h) for a positive h and cur was given its result
FromDecayConstant ==
    /\ prev.fn = "decay_constant"
    /\ Pos(prev.args[1])
    /\ HasReturned(prev)
    /\ cur.args[1] = prev.out.val

\* first and prev are the first two links, cur was given the activity
FromActivity ==
    /\ first.fn = "decay_constant"
    /\ Pos(first.args[1])
    /\ prev.fn = "activity"
    /\ ~Neg(prev.args[2])
    /\ HasReturned(prev)
    /\ cur.args[1] = prev.out.val

\* the distance of the flux call cur is positive, or omitted for the plane
DistanceOk ==
    IF cur.fn = "radiation_semi_infinite_plane"
    THEN cur.args[2] = <<>> \/ Pos(cur.args[2][1])
    ELSE Pos(cur.args[2])

Geometries ==
    {"radiation_point_source", "radiation_infinite_line_source",
     "radiation_semi_infinite_plane"}

C18_Chain ==
    /\ (cur.fn = "decay_constant" /\ Pos(cur.args[1])) =>
           HasReturned(cur) /\ Pos(cur.out.val)
    /\ (cur.fn = "half_life" /\ FromDecayConstant) => HasReturned(cur)
    /\ (cur.fn = "activity" /\ FromDecayConstant /\ ~Neg(cur.args[2])) =>
           HasReturned(cur) /\ ~Neg(cur.out.val)
    /\ (cur.fn \in Geometries /\ FromActivity /\ DistanceOk) =>
           HasReturned(cur) /\ ~Neg(cur.out.val)
    /\ (cur.fn \in radiation /\ HasReturned(cur)) => ~Neg(cur.out.val)

\* the whole chain was run: a positive flux of a point source computed
\* from a half-life and a number of nuclei
C18_Witness ==
    /\ first.fn = "decay_constant"
    /\ prev.fn = "activity"
    /\ cur.fn = "radiation_point_source"
    /\ FromActivity
    /\ HasReturned(cur) /\ Pos(cur.out.val)

=============================================================================
